---- MODULE Spec2Model ----
(***************************************************************************)
(* Model of src/script.js: the per-frame simulation of a side-scrolling    *)
(* platformer (player physics, platform collision, coin collection,        *)
(* camera) together with the keyboard handlers that set the input intent.  *)
(*                                                                         *)
(* Numbers.  The program computes with JavaScript doubles.  Lengths and    *)
(* velocities are modelled in fixed point, Unit steps per pixel, so that   *)
(* 0.4 (GRAVITY), 0.5 (acceleration), 0.1 (friction cut-off) and every     *)
(* coordinate of the level are exact integers.  The one operation whose    *)
(* result is not a multiple of the resolution, velX * FRICTION, is rounded *)
(* to the nearest step (MulFriction), as the double product is rounded to  *)
(* the nearest double.  Times (timestamps, dt, the walk timer) are whole   *)
(* milliseconds.                                                           *)
(***************************************************************************)
EXTENDS Integers, Sequences, FiniteSets, TLC

\* ---------------------------------------------------------------- bounds
\* Spec: frames (requestAnimationFrame callbacks) a behaviour may run, and
\* changes of the key state (a key going down or up) it may contain.
MaxFrames == 32
MaxKeyChanges == 2
\* SpecLong: a longer run with fewer key changes.
LongFrames == 66
LongKeyChanges == 1
\* SpecFriction: frames and changes of the jump key in a run without direction
\* keys; FrictionTicks is the number of ticks friction needs to stop the
\* player from full speed (6 * 0.8^18 >= 0.1 > 6 * 0.8^19).
FrictionFrames == 24
FrictionKeyChanges == 1
FrictionTicks == 19
\* SpecTwin: frames and key changes of two runs fed the same input.
TwinFrames == 4
TwinKeyChanges == 1
\* SpecHigh: the frame a run that starts in frame 95 may go on to, and the key
\* changes in it; MaxAirTicks bounds the ticks between a take-off and the
\* landing after it.
HighFrames == 195
HighKeyChanges == 1
MaxAirTicks == 75

\* ------------------------------------------------------------- resolution
Unit == 1000

Px(n) == n * Unit

\* ---------------------------------------------------------------- canvas
\* The canvas element of the host page (document.getElementById).
CANVAS_WIDTH  == Px(800)
CANVAS_HEIGHT == Px(480)

\* ------------------------------------------------------------- constants
WORLD_WIDTH  == Px(2800)
WORLD_HEIGHT == CANVAS_HEIGHT

GRAVITY       == (4 * Unit) \div 10
MAX_VEL_X     == Px(6)
JUMP_VELOCITY == -Px(12)
ACCEL         == (5 * Unit) \div 10
STOP_BELOW    == Unit \div 10

PLAYER_WIDTH  == Px(50)
PLAYER_HEIGHT == Px(70)
COIN_SIZE     == Px(32)

walkFrameInterval == 100
LAST_WALK_FRAME   == 11

Max(a, b) == IF a >= b THEN a ELSE b
Min(a, b) == IF a <= b THEN a ELSE b
Abs(a)    == IF a < 0 THEN -a ELSE a

\* a * num / den rounded to the nearest integer, sign-symmetric.
RoundDiv(a, den) ==
  IF a >= 0 THEN (2 * a + den) \div (2 * den)
            ELSE -((2 * (-a) + den) \div (2 * den))

\* this.velX *= FRICTION, FRICTION = 0.8
MulFriction(v) == RoundDiv(v * 8, 10)

\* ----------------------------------------------------------------- level
TILE_SIZE   == Px(70)
tilesAcross == (WORLD_WIDTH + TILE_SIZE - 1) \div TILE_SIZE

\* Variant of groundTiles: the ground strip is 10 px thick.
groundTiles_Thin ==
  [i \in 1..tilesAcross |->
     [x |-> (i - 1) * TILE_SIZE, y |-> CANVAS_HEIGHT - TILE_SIZE,
      w |-> TILE_SIZE, h |-> Px(10)]]

groundTiles ==
  [i \in 1..tilesAcross |->
     [x |-> (i - 1) * TILE_SIZE, y |-> CANVAS_HEIGHT - TILE_SIZE,
      w |-> TILE_SIZE, h |-> TILE_SIZE]]

\* Variant of floatingPlatforms: a sixth platform, a ledge 0.4 px thick along
\* the world with its top 0.2 px above the ground strip.
floatingPlatforms_ThinLedge ==
  << [x |-> Px(300),  y |-> CANVAS_HEIGHT - Px(200), w |-> Px(140), h |-> Px(40)],
     [x |-> Px(600),  y |-> CANVAS_HEIGHT - Px(300), w |-> Px(140), h |-> Px(40)],
     [x |-> Px(1000), y |-> CANVAS_HEIGHT - Px(250), w |-> Px(140), h |-> Px(40)],
     [x |-> Px(1500), y |-> CANVAS_HEIGHT - Px(180), w |-> Px(140), h |-> Px(40)],
     [x |-> Px(2000), y |-> CANVAS_HEIGHT - Px(220), w |-> Px(140), h |-> Px(40)],
     [x |-> 0, y |-> CANVAS_HEIGHT - TILE_SIZE - (2 * Unit) \div 10,
      w |-> WORLD_WIDTH, h |-> (4 * Unit) \div 10] >>

floatingPlatforms ==
  << [x |-> Px(300),  y |-> CANVAS_HEIGHT - Px(200), w |-> Px(140), h |-> Px(40)],
     [x |-> Px(600),  y |-> CANVAS_HEIGHT - Px(300), w |-> Px(140), h |-> Px(40)],
     [x |-> Px(1000), y |-> CANVAS_HEIGHT - Px(250), w |-> Px(140), h |-> Px(40)],
     [x |-> Px(1500), y |-> CANVAS_HEIGHT - Px(180), w |-> Px(140), h |-> Px(40)],
     [x |-> Px(2000), y |-> CANVAS_HEIGHT - Px(220), w |-> Px(140), h |-> Px(40)] >>

potentialPlatforms == groundTiles \o floatingPlatforms

coinPositions ==
  << [x |-> Px(350),  y |-> CANVAS_HEIGHT - Px(250)],
     [x |-> Px(650),  y |-> CANVAS_HEIGHT - Px(350)],
     [x |-> Px(1050), y |-> CANVAS_HEIGHT - Px(300)],
     [x |-> Px(1550), y |-> CANVAS_HEIGHT - Px(230)],
     [x |-> Px(2050), y |-> CANVAS_HEIGHT - Px(270)],
     [x |-> Px(500),  y |-> CANVAS_HEIGHT - Px(110)],
     [x |-> Px(1200), y |-> CANVAS_HEIGHT - Px(110)],
     [x |-> Px(1900), y |-> CANVAS_HEIGHT - Px(110)] >>

NumCoins == Len(coinPositions)

KeyNames == {"left", "right", "up"}

\* ---------------------------------------------------------------- clouds
\* initClouds(): numClouds clouds, each with x = Math.random() * canvas.width,
\* y = Math.random() * canvas.height * 0.4, speed = 0.2 + Math.random() * 0.3.
\* CloudDraws are two outcomes of it; CloudYs are outcomes of the
\* Math.random() * canvas.height * 0.4 of a cloud that wraps.
numClouds == 5

CloudDraws ==
  { << [x |-> Px(100), y |-> Px(20),  speed |-> 200],
       [x |-> Px(250), y |-> Px(150), speed |-> 250],
       [x |-> Px(420), y |-> Px(60),  speed |-> 300],
       [x |-> Px(610), y |-> Px(100), speed |-> 450],
       [x |-> Px(790), y |-> Px(35),  speed |-> 400] >>,
    << [x |-> Px(0),   y |-> Px(191), speed |-> 499],
       [x |-> Px(130), y |-> Px(0),   speed |-> 200],
       [x |-> Px(333), y |-> Px(77),  speed |-> 350],
       [x |-> Px(799), y |-> Px(120), speed |-> 250],
       [x |-> Px(560), y |-> Px(10),  speed |-> 300] >> }

CloudYs == {0, (CANVAS_HEIGHT * 4) \div 10 - 1}

\* The draw the single runs (Spec, SpecLong, ...) follow.
StartClouds ==
  {cl \in CloudDraws : cl[1].x = Px(100)}

\* ---------------------------------------------------------------- state
VARIABLES
  keys,           \* the key map: left, right, up
  player,         \* the Player object
  coins,          \* collected flag of each coin, in coinPositions order
  score,
  cameraX,
  lastTimestamp,
  dt,             \* gameLoop's dt, the argument of update(dt)
  pc,             \* position of the frame callback
  frames,         \* frames run so far (bounded by MaxFrames)
  keyChanges,     \* key state changes so far (bounded by MaxKeyChanges)
  clouds,         \* the background clouds
  twin            \* SpecTwin: player, coins, score, cameraX and clouds of a
                  \* second run of the program fed the same input

vars == << keys, player, coins, score, cameraX, lastTimestamp, dt, pc,
           frames, keyChanges, clouds, twin >>

\* ------------------------------------------------------- Player.update
\* The two horizontal tests of the platform loop; they read only x and the
\* platform, neither of which the loop changes.
OverlapsX(x, plat) ==
  /\ x + PLAYER_WIDTH > plat.x
  /\ x < plat.x + plat.w

\* Variant of HitsPlatform: the direction of the vertical motion is not tested.
HitsPlatform_AnyDirection(x, s, plat) ==
  /\ x + PLAYER_WIDTH > plat.x
  /\ x < plat.x + plat.w
  /\ s.y + PLAYER_HEIGHT > plat.y
  /\ s.y + PLAYER_HEIGHT < plat.y + plat.h

\* Variant of HitsPlatform: a player that only has this tick's gravity as its
\* fall speed is not caught.
HitsPlatform_OnlyFalling(x, s, plat) ==
  /\ x + PLAYER_WIDTH > plat.x
  /\ x < plat.x + plat.w
  /\ s.y + PLAYER_HEIGHT > plat.y
  /\ s.y + PLAYER_HEIGHT < plat.y + plat.h
  /\ s.velY > GRAVITY

\* One test of the platform loop, applied to the running (y, velY, onGround).
HitsPlatform(x, s, plat) ==
  /\ OverlapsX(x, plat)
  /\ s.y + PLAYER_HEIGHT > plat.y
  /\ s.y + PLAYER_HEIGHT < plat.y + plat.h
  /\ s.velY >= 0

\* Variant of SnapTo: the fall speed is kept.
SnapTo_KeepVel(s, plat) ==
  [y |-> plat.y - PLAYER_HEIGHT, velY |-> s.velY, onGround |-> TRUE]

SnapTo(s, plat) ==
  [y |-> plat.y - PLAYER_HEIGHT, velY |-> 0, onGround |-> TRUE]

\* for (const plat of plats) { if (...) { snap } }, from index i on: each snap
\* changes y and velY before the next platform is tested.
RECURSIVE ResolveSeq(_, _, _, _)
ResolveSeq(plats, i, x, s) ==
  IF i > Len(plats) THEN s
  ELSE IF HitsPlatform(x, s, plats[i])
       THEN ResolveSeq(plats, i + 1, x, SnapTo(s, plats[i]))
       ELSE ResolveSeq(plats, i + 1, x, s)

\* The loop over plats.  A platform that fails a horizontal test is passed over
\* whatever the running state is, so the loop is run over the others, in order.
ResolvePlatforms(plats, x, s) ==
  ResolveSeq(SelectSeq(plats, LAMBDA plat : OverlapsX(x, plat)), 1, x, s)

\* Prevent falling below the ground (in case missed collision).
FloorNet(s) ==
  IF s.y + PLAYER_HEIGHT > CANVAS_HEIGHT
  THEN [y |-> CANVAS_HEIGHT - PLAYER_HEIGHT, velY |-> 0, onGround |-> TRUE]
  ELSE s

\* Variant of HorizontalVel: right is tested before left.
HorizontalVel_RightFirst(velX, k) ==
  IF k.right THEN Min(velX + ACCEL, MAX_VEL_X)
  ELSE IF k.left THEN Max(velX - ACCEL, -MAX_VEL_X)
  ELSE LET v == MulFriction(velX) IN IF Abs(v) < STOP_BELOW THEN 0 ELSE v

\* Variant of HorizontalVel: a slow player is not brought to a halt.
HorizontalVel_NoStop(velX, k) ==
  IF k.left THEN Max(velX - ACCEL, -MAX_VEL_X)
  ELSE IF k.right THEN Min(velX + ACCEL, MAX_VEL_X)
  ELSE MulFriction(velX)

\* Variant of HorizontalVel: moving left is not clamped.
HorizontalVel_NoClamp(velX, k) ==
  IF k.left THEN velX - ACCEL
  ELSE IF k.right THEN Min(velX + ACCEL, MAX_VEL_X)
  ELSE LET v == MulFriction(velX) IN IF Abs(v) < STOP_BELOW THEN 0 ELSE v

HorizontalVel(velX, k) ==
  IF k.left THEN Max(velX - ACCEL, -MAX_VEL_X)
  ELSE IF k.right THEN Min(velX + ACCEL, MAX_VEL_X)
  ELSE LET v == MulFriction(velX) IN IF Abs(v) < STOP_BELOW THEN 0 ELSE v

\* Variant of Jumps: a jump starts wherever the player is.
Jumps_Anywhere(p, k) == k.up

Jumps(p, k) == k.up /\ p.onGround

\* Variant of ClampX: no wall at the left end of the world.
ClampX_NoLeftWall(x) == Min(x, WORLD_WIDTH - PLAYER_WIDTH)

ClampX(x) == Max(0, Min(x, WORLD_WIDTH - PLAYER_WIDTH))

Animate(p, velX, onGround, d) ==
  IF Abs(velX) > STOP_BELOW /\ onGround
  THEN LET t == p.walkFrameTimer + d IN
       IF t > walkFrameInterval
       THEN [index |-> IF p.walkFrameIndex + 1 > LAST_WALK_FRAME
                       THEN 1 ELSE p.walkFrameIndex + 1,
             timer |-> 0]
       ELSE [index |-> p.walkFrameIndex, timer |-> t]
  ELSE [index |-> 1, timer |-> 0]

\* Variant of BeforeCollision: gravity is added only when no jump starts.
BeforeCollision_GravityElse(p, k) ==
  LET velY == IF Jumps(p, k) THEN JUMP_VELOCITY ELSE p.velY + GRAVITY
  IN  [y |-> p.y + velY, velY |-> velY, onGround |-> FALSE]

\* The state of the vertical motion when the platform loop starts.
BeforeCollision(p, k) ==
  LET velY == (IF Jumps(p, k) THEN JUMP_VELOCITY ELSE p.velY) + GRAVITY
  IN  [y |-> p.y + velY, velY |-> velY, onGround |-> FALSE]

\* The end of update(dt): the animation, from the settled vertical state s.
Settled(p, velX, x, s, d) ==
  [x |-> x, y |-> s.y, velX |-> velX, velY |-> s.velY, onGround |-> s.onGround,
   walkFrameIndex |-> Animate(p, velX, s.onGround, d).index,
   walkFrameTimer |-> Animate(p, velX, s.onGround, d).timer]

\* Variant of Land: the collision block is skipped.
Land_Skipped(x, s0) == s0

\* The platform loop and the floor check, at the new x.
Land(x, s0) == FloorNet(ResolvePlatforms(potentialPlatforms, x, s0))

Moved(p, k, velX, x, d) == Settled(p, velX, x, Land(x, BeforeCollision(p, k)), d)

PlayerUpdate(p, k, d) ==
  Moved(p, k, HorizontalVel(p.velX, k), ClampX(p.x + HorizontalVel(p.velX, k)), d)

\* ------------------------------------------------------------- update
\* Variant of CameraFor: the offset moves half of the way to its target.
CameraFor_Eased(x) ==
  (cameraX + Max(0, Min(WORLD_WIDTH - CANVAS_WIDTH,
                        x + PLAYER_WIDTH \div 2 - CANVAS_WIDTH \div 2))) \div 2

\* Variant of CameraFor: the offset is not held at 0 on the left.
CameraFor_NoFloor(x) ==
  Min(WORLD_WIDTH - CANVAS_WIDTH, x + PLAYER_WIDTH \div 2 - CANVAS_WIDTH \div 2)

CameraFor(x) ==
  LET centerX    == x + PLAYER_WIDTH \div 2
      halfCanvas == CANVAS_WIDTH \div 2
  IN  Max(0, Min(WORLD_WIDTH - CANVAS_WIDTH, centerX - halfCanvas))

\* Variant of CoinOverlap: boxes that share an edge count as overlapping.
CoinOverlap_Touching(p, coin) ==
  /\ p.x <= coin.x + COIN_SIZE
  /\ p.x + PLAYER_WIDTH >= coin.x
  /\ p.y <= coin.y + COIN_SIZE
  /\ p.y + PLAYER_HEIGHT >= coin.y

CoinOverlap(p, coin) ==
  /\ p.x < coin.x + COIN_SIZE
  /\ p.x + PLAYER_WIDTH > coin.x
  /\ p.y < coin.y + COIN_SIZE
  /\ p.y + PLAYER_HEIGHT > coin.y

\* Variant of CoinCollisions: a coin counts each time it is overlapped.
RECURSIVE CoinCollisions_Recount(_, _, _, _)
CoinCollisions_Recount(p, i, cs, sc) ==
  IF i > NumCoins THEN [coins |-> cs, score |-> sc]
  ELSE IF CoinOverlap(p, coinPositions[i])
       THEN CoinCollisions_Recount(p, i + 1, [cs EXCEPT ![i] = TRUE], sc + 1)
       ELSE CoinCollisions_Recount(p, i + 1, cs, sc)

\* Variant of CoinCollisions: the collected flag is not tested, each overlap flips it.
RECURSIVE CoinCollisions_Toggle(_, _, _, _)
CoinCollisions_Toggle(p, i, cs, sc) ==
  IF i > NumCoins THEN [coins |-> cs, score |-> sc]
  ELSE IF CoinOverlap(p, coinPositions[i])
       THEN CoinCollisions_Toggle(p, i + 1, [cs EXCEPT ![i] = ~cs[i]], sc + 1)
       ELSE CoinCollisions_Toggle(p, i + 1, cs, sc)

\* coins.forEach(coin => { if (!coin.collected && overlap) { collected; score++ } })
RECURSIVE CoinCollisions(_, _, _, _)
CoinCollisions(p, i, cs, sc) ==
  IF i > NumCoins THEN [coins |-> cs, score |-> sc]
  ELSE IF ~cs[i] /\ CoinOverlap(p, coinPositions[i])
       THEN CoinCollisions(p, i + 1, [cs EXCEPT ![i] = TRUE], sc + 1)
       ELSE CoinCollisions(p, i + 1, cs, sc)

\* clouds.forEach: one cloud after cloud.x += cloud.speed * (dt / 16); a cloud
\* that has left the canvas on the right comes back at -150 with a new y.
MovedCloud(cloud, d) ==
  LET x == cloud.x + (cloud.speed * d) \div 16 IN
    IF x - Px(100) > CANVAS_WIDTH
    THEN {[x |-> -Px(150), y |-> y, speed |-> cloud.speed] : y \in CloudYs}
    ELSE {[x |-> x, y |-> cloud.y, speed |-> cloud.speed]}

RECURSIVE CloudsFrom(_, _, _)
CloudsFrom(cl, i, d) ==
  IF i > Len(cl) THEN {<< >>}
  ELSE {<<c>> \o rest : c \in MovedCloud(cl[i], d), rest \in CloudsFrom(cl, i + 1, d)}

\* The cloud lists the loop can leave behind.
CloudMoves(cl, d) == CloudsFrom(cl, 1, d)

\* Variant of Update: the camera offset takes in the first cloud's drift.
Update_Parallax(run, k, d) ==
  LET p == PlayerUpdate(run.player, k, d)
      r == CoinCollisions(p, 1, run.coins, run.score)
  IN  {[player |-> p, cameraX |-> CameraFor(p.x) + cl[1].x \div 8,
        coins |-> r.coins, score |-> r.score, clouds |-> cl] :
         cl \in CloudMoves(run.clouds, d)}

\* update(dt) on the state run of a run of the program, with the keys k: the
\* states it can leave behind.
Update(run, k, d) ==
  LET p == PlayerUpdate(run.player, k, d)
      r == CoinCollisions(p, 1, run.coins, run.score)
  IN  {[player |-> p, cameraX |-> CameraFor(p.x),
        coins |-> r.coins, score |-> r.score, clouds |-> cl] :
         cl \in CloudMoves(run.clouds, d)}

\* ------------------------------------------------------------------ Init
NewPlayer ==
  [x |-> Px(100), y |-> CANVAS_HEIGHT - PLAYER_HEIGHT - Px(70),
   velX |-> 0, velY |-> 0, onGround |-> FALSE,
   walkFrameIndex |-> 1, walkFrameTimer |-> 0]

\* No second run.
NoTwin == << >>

Init ==
  /\ keys = [k \in KeyNames |-> FALSE]
  /\ player = NewPlayer
  /\ coins = [i \in 1..NumCoins |-> FALSE]
  /\ score = 0
  /\ cameraX = 0
  /\ lastTimestamp = 0
  /\ dt = 0
  /\ pc = "boot"
  /\ frames = 0
  /\ keyChanges = 0
  /\ clouds \in StartClouds
  /\ twin = NoTwin

\* --------------------------------------------------------------- actions
\* First timestamps and frame intervals handed in by requestAnimationFrame.
FirstTimestamps == {250}
FrameDts == {16}

\* The handlers run between frame callbacks, never inside one.
BetweenFrames == pc \in {"boot", "raf"}

SetKey(k, v, maxChanges) ==
  /\ BetweenFrames
  /\ IF keys[k] = v
     THEN UNCHANGED << keys, keyChanges >>
     ELSE /\ keyChanges < maxChanges
          /\ keys' = [keys EXCEPT ![k] = v]
          /\ keyChanges' = keyChanges + 1
  /\ UNCHANGED << player, coins, score, cameraX, lastTimestamp, dt, pc, frames,
                  clouds, twin >>

KeyDown(k, maxChanges) == SetKey(k, TRUE, maxChanges)
KeyUp(k, maxChanges)   == SetKey(k, FALSE, maxChanges)

\* Variant of AfterStep: the coins are checked before the camera is updated.
AfterStep_CoinsFirst(step) ==
  CASE step = "player" -> "coins"
    [] step = "coins"  -> "camera"
    [] step = "camera" -> "render"
    [] step = "render" -> "raf"

\* What runs after each part of gameLoop: update(dt) is player.update(dt), the
\* camera, the coins; then render() and the request for the next frame.
AfterStep(step) ==
  CASE step = "player" -> "camera"
    [] step = "camera" -> "coins"
    [] step = "coins"  -> "render"
    [] step = "render" -> "raf"

\* gameLoop(timestamp) up to and including player.update(dt).
Tick(ts, last, maxFrames) ==
  /\ frames < maxFrames
  /\ frames' = frames + 1
  /\ dt' = ts - last
  /\ lastTimestamp' = ts
  /\ player' = PlayerUpdate(player, keys, ts - last)
  /\ UNCHANGED << keys, keyChanges >>

\* The frame callback part by part.
\* requestAnimationFrame((ts) => { lastTimestamp = ts; gameLoop(ts); })
StartLoop(ts, maxFrames) ==
  /\ pc = "boot"
  /\ Tick(ts, ts, maxFrames)
  /\ pc' = AfterStep("player")
  /\ UNCHANGED << coins, score, cameraX, clouds, twin >>

GameLoop(ts, maxFrames) ==
  /\ pc = "raf"
  /\ Tick(ts, lastTimestamp, maxFrames)
  /\ pc' = AfterStep("player")
  /\ UNCHANGED << coins, score, cameraX, clouds, twin >>

UpdateCamera ==
  /\ pc = "camera"
  /\ cameraX' = CameraFor(player.x)
  /\ pc' = AfterStep("camera")
  /\ UNCHANGED << keys, player, coins, score, lastTimestamp, dt, frames, keyChanges,
                  clouds, twin >>

\* The coin loop and, after it, the cloud loop: the rest of update(dt).
UpdateCoins ==
  /\ pc = "coins"
  /\ LET r == CoinCollisions(player, 1, coins, score) IN
       /\ coins' = r.coins
       /\ score' = r.score
  /\ clouds' \in CloudMoves(clouds, dt)
  /\ pc' = AfterStep("coins")
  /\ UNCHANGED << keys, player, cameraX, lastTimestamp, dt, frames, keyChanges,
                  twin >>

\* render() reads the state; requestAnimationFrame(gameLoop) asks for the next frame.
Render ==
  /\ pc = "render"
  /\ pc' = AfterStep("render")
  /\ UNCHANGED << keys, player, coins, score, cameraX, lastTimestamp, dt,
                  frames, keyChanges, clouds, twin >>

\* The frame callback as one step: a callback runs to completion.
WholeLoop(ts, last, maxFrames) ==
  /\ Tick(ts, last, maxFrames)
  /\ cameraX' = CameraFor(player'.x)
  /\ LET r == CoinCollisions(player', 1, coins, score) IN
       /\ coins' = r.coins
       /\ score' = r.score
  /\ clouds' \in CloudMoves(clouds, ts - last)
  /\ pc' = "raf"

\* Variant of StartFrame: lastTimestamp is not set before the first gameLoop.
StartFrame_NoSeed(ts, maxFrames) ==
  /\ pc = "boot"
  /\ WholeLoop(ts, lastTimestamp, maxFrames)
  /\ UNCHANGED twin

StartFrame(ts, maxFrames) ==
  /\ pc = "boot"
  /\ WholeLoop(ts, ts, maxFrames)
  /\ UNCHANGED twin

Frame(ts, maxFrames) ==
  /\ pc = "raf"
  /\ WholeLoop(ts, lastTimestamp, maxFrames)
  /\ UNCHANGED twin

\* Two runs of the program side by side, given the same timestamps and the
\* same keys: each runs update(dt) on its own state.
Run ==
  [player |-> player, cameraX |-> cameraX, coins |-> coins, score |-> score,
   clouds |-> clouds]

TwinLoop(ts, last, maxFrames) ==
  /\ frames < maxFrames
  /\ frames' = frames + 1
  /\ dt' = ts - last
  /\ lastTimestamp' = ts
  /\ \E n \in Update(Run, keys, ts - last) :
       /\ player' = n.player
       /\ cameraX' = n.cameraX
       /\ coins' = n.coins
       /\ score' = n.score
       /\ clouds' = n.clouds
  /\ twin' \in Update(twin, keys, ts - last)
  /\ pc' = "raf"
  /\ UNCHANGED << keys, keyChanges >>

TwinStartFrame(ts, maxFrames) ==
  /\ pc = "boot"
  /\ TwinLoop(ts, ts, maxFrames)

TwinFrame(ts, maxFrames) ==
  /\ pc = "raf"
  /\ TwinLoop(ts, lastTimestamp, maxFrames)

\* ------------------------------------------------------- specifications
\* Spec: every key script of at most MaxKeyChanges changes over at most
\* MaxFrames frames, each frame callback one step.
Next ==
  \/ \E k \in KeyNames : KeyDown(k, MaxKeyChanges)
  \/ \E k \in KeyNames : KeyUp(k, MaxKeyChanges)
  \/ \E ts \in FirstTimestamps : StartFrame(ts, MaxFrames)
  \/ \E d \in FrameDts : Frame(lastTimestamp + d, MaxFrames)

Spec == Init /\ [][Next]_vars

\* SpecLong: longer runs with fewer key changes, the frame callback taken
\* part by part.
NextLong ==
  \/ \E k \in KeyNames : KeyDown(k, LongKeyChanges)
  \/ \E k \in KeyNames : KeyUp(k, LongKeyChanges)
  \/ \E ts \in FirstTimestamps : StartLoop(ts, LongFrames)
  \/ \E d \in FrameDts : GameLoop(lastTimestamp + d, LongFrames)
  \/ UpdateCamera
  \/ UpdateCoins
  \/ Render

SpecLong == Init /\ [][NextLong]_vars

\* SpecCoins: the coin check of update(dt) alone, applied to player boxes placed
\* around the edges of each coin (apart, sharing an edge or a corner, overlapping
\* by half a pixel), with that coin collected or not.
EdgeOffsets == {-ACCEL, 0, ACCEL}

ProbeXs(coin) ==
  {coin.x - PLAYER_WIDTH + d : d \in EdgeOffsets} \cup
  {coin.x + COIN_SIZE + d : d \in EdgeOffsets}

\* The player's feet are never below the top of the ground strip.
ProbeYs(coin) ==
  { y \in {coin.y - PLAYER_HEIGHT + d : d \in EdgeOffsets} \cup
          {coin.y + COIN_SIZE + d : d \in EdgeOffsets} :
      y + PLAYER_HEIGHT <= CANVAS_HEIGHT - TILE_SIZE }

InitCoins ==
  /\ keys = [k \in KeyNames |-> FALSE]
  /\ \E c \in 1..NumCoins :
       /\ \E x \in ProbeXs(coinPositions[c]), y \in ProbeYs(coinPositions[c]) :
            player = [NewPlayer EXCEPT !.x = x, !.y = y]
       /\ \E done \in BOOLEAN :
            /\ coins = [i \in 1..NumCoins |-> done /\ i = c]
            /\ score = IF done THEN 1 ELSE 0
  /\ cameraX = CameraFor(player.x)
  /\ lastTimestamp \in FirstTimestamps
  /\ dt = 0
  /\ pc = "coins"
  /\ frames = 1
  /\ keyChanges = 0
  /\ clouds \in StartClouds
  /\ twin = NoTwin

NextCoins ==
  \/ UpdateCoins
  \/ Render

SpecCoins == InitCoins /\ [][NextCoins]_vars

\* SpecFriction: the player stands on the ground strip in the middle of the
\* world with some horizontal velocity in [-MAX_VEL_X, MAX_VEL_X] and no
\* direction key is ever held; the jump key may be.
SlowVels == {1, 62, 63, 99, 100, 101, 124, 125, 126}

FrictionVels ==
  {(n - 24) * (Unit \div 4) : n \in 0..48} \cup SlowVels \cup {-v : v \in SlowVels}

FrictionStart(v) ==
  [NewPlayer EXCEPT !.x = WORLD_WIDTH \div 2, !.velX = v, !.onGround = TRUE]

InitFriction ==
  /\ keys = [k \in KeyNames |-> FALSE]
  /\ \E v \in FrictionVels : player = FrictionStart(v)
  /\ coins = [i \in 1..NumCoins |-> FALSE]
  /\ score = 0
  /\ cameraX = CameraFor(player.x)
  /\ lastTimestamp \in FirstTimestamps
  /\ dt = 0
  /\ pc = "raf"
  /\ frames = 1
  /\ keyChanges = 0
  /\ clouds \in StartClouds
  /\ twin = NoTwin

NextFriction ==
  \/ KeyDown("up", FrictionKeyChanges)
  \/ KeyUp("up", FrictionKeyChanges)
  \/ \E d \in FrameDts : Frame(lastTimestamp + d, FrictionFrames)

SpecFriction == InitFriction /\ [][NextFriction]_vars

\* SpecTwin: two runs of the program with clouds drawn independently, fed the
\* same timestamps and keys.  They start at construction, or after 63 frames
\* with right held since before the first frame (the player runs on the ground
\* strip and is about to reach the sixth coin).  A frame may come late (the
\* page was in the background), which lets clouds wrap.
TwinDts == {16, 8000}

RunningRight ==
  [x |-> Px(445), y |-> CANVAS_HEIGHT - TILE_SIZE - PLAYER_HEIGHT,
   velX |-> MAX_VEL_X, velY |-> 0, onGround |-> TRUE,
   walkFrameIndex |-> 9, walkFrameTimer |-> 96]

InitTwin ==
  /\ \/ /\ keys = [k \in KeyNames |-> FALSE]
        /\ player = NewPlayer
        /\ cameraX = 0
        /\ lastTimestamp = 0
        /\ pc = "boot"
        /\ frames = 0
     \/ /\ keys = [k \in KeyNames |-> k = "right"]
        /\ player = RunningRight
        /\ cameraX = CameraFor(RunningRight.x)
        /\ \E ts \in FirstTimestamps : lastTimestamp = ts + 62 * 16
        /\ pc = "raf"
        /\ frames = 1
  /\ coins = [i \in 1..NumCoins |-> FALSE]
  /\ score = 0
  /\ dt = 0
  /\ keyChanges = 0
  /\ clouds \in CloudDraws
  /\ \E cl \in CloudDraws : twin = [Run EXCEPT !.clouds = cl]

NextTwin ==
  \/ \E k \in KeyNames : KeyDown(k, TwinKeyChanges)
  \/ \E k \in KeyNames : KeyUp(k, TwinKeyChanges)
  \/ \E ts \in FirstTimestamps : TwinStartFrame(ts, TwinFrames)
  \/ \E d \in TwinDts : TwinFrame(lastTimestamp + d, TwinFrames)

SpecTwin == InitTwin /\ [][NextTwin]_vars

\* SpecHigh: the program from frame 95 of the run in which right is held from
\* the start and up is held before frames 1 and 2 and again from frame 25 on:
\* the player has jumped onto the first floating platform, from there onto the
\* second, the highest of the level, has taken the first two coins on the way,
\* and has just landed, running right.
HighStartFrame == 95

OnSecondPlatform ==
  [x |-> Px(637), y |-> floatingPlatforms[2].y - PLAYER_HEIGHT,
   velX |-> MAX_VEL_X, velY |-> 0, onGround |-> TRUE,
   walkFrameIndex |-> 1, walkFrameTimer |-> 16]

InitHigh ==
  /\ keys = [k \in KeyNames |-> k \in {"right", "up"}]
  /\ player = OnSecondPlatform
  /\ coins = [i \in 1..NumCoins |-> i \in {1, 2}]
  /\ score = 2
  /\ cameraX = CameraFor(OnSecondPlatform.x)
  /\ \E ts \in FirstTimestamps : lastTimestamp = ts + (HighStartFrame - 1) * 16
  /\ dt = 16
  /\ pc = "raf"
  /\ frames = HighStartFrame
  /\ keyChanges = 0
  /\ \E cl \in StartClouds :
       clouds = [i \in 1..numClouds |->
                   [cl[i] EXCEPT !.x = @ + (HighStartFrame - 1) * cl[i].speed]]
  /\ twin = NoTwin

NextHigh ==
  \/ \E k \in KeyNames : KeyDown(k, HighKeyChanges)
  \/ \E k \in KeyNames : KeyUp(k, HighKeyChanges)
  \/ \E d \in FrameDts : Frame(lastTimestamp + d, HighFrames)

SpecHigh == InitHigh /\ [][NextHigh]_vars

\* requestAnimationFrame(gameLoop) at the end of every gameLoop: the frame
\* callback keeps being called, so a frame that can run does run.
FrameRuns ==
  /\ pc = "raf"
  /\ frames < HighFrames
  /\ frames' = frames + 1

SpecHighFair == SpecHigh /\ WF_frames(FrameRuns)

\* ------------------------------------------------------------ properties
\* A step in which player.update(dt) runs.
IsTick == frames' = frames + 1

Bottom(p) == p.y + PLAYER_HEIGHT

\* C1. World-bound invariant: after every tick, under any sequence of left,
\* right and jump intents, player.x lies in [0, WORLD_WIDTH - PLAYER_WIDTH].
C1_WorldBound ==
  /\ player.x >= 0
  /\ player.x <= WORLD_WIDTH - PLAYER_WIDTH

\* The player is pressed against the left wall: the tick moved it past 0.
C1_AtLeftWall ==
  /\ frames > 0
  /\ player.x = 0
  /\ player.velX < 0

\* C2. Clamp invariant: after every tick, under any sequence of intents (left
\* and right held together included), velX lies in [-MAX_VEL_X, MAX_VEL_X].
C2_VelClamp ==
  /\ player.velX >= -MAX_VEL_X
  /\ player.velX <= MAX_VEL_X

\* Left and right are both held and the player has run at full speed for at
\* least one tick after reaching it (twelve ticks of acceleration cover 39 px).
C2_FullSpeedBothHeld ==
  /\ keys.left /\ keys.right
  /\ player.velX = -MAX_VEL_X
  /\ player.x <= NewPlayer.x - Px(39) - MAX_VEL_X

\* C3. Floor invariant: after every tick the player's bottom edge is not below
\* the world floor: player.y + PLAYER_HEIGHT <= WORLD_HEIGHT.
C3_Floor == Bottom(player) <= WORLD_HEIGHT

\* A tick has pulled the player down and left it standing on the ground strip.
C3_OnGroundStrip ==
  /\ frames > 0
  /\ player.onGround
  /\ Bottom(player) = CANVAS_HEIGHT - TILE_SIZE

\* C4. Collection monotonicity: no step sets a collected flag back to false,
\* and no step decreases the score.
C4_Monotonic ==
  [][ /\ \A i \in 1..NumCoins : coins[i] => coins'[i]
      /\ score' >= score ]_vars

\* The sixth coin was collected in an earlier frame and the coins have been
\* checked again since, the player still overlapping it.
C4_CollectedEarlier ==
  /\ pc = "render"
  /\ coins[6] /\ score = 1
  /\ player.x >= Px(457)
  /\ CoinOverlap(player, coinPositions[6])

\* C5. Camera bound invariant: cameraX lies in [0, WORLD_WIDTH - viewport width]
\* for every player position reached.
C5_CameraBound ==
  /\ cameraX >= 0
  /\ cameraX <= WORLD_WIDTH - CANVAS_WIDTH

\* The camera has left its left stop and follows the player.
C5_CameraScrolled ==
  /\ cameraX > 0
  /\ cameraX = CameraFor(player.x)

\* Some coin not yet collected overlaps the player.
UncollectedOverlap ==
  \E i \in 1..NumCoins : ~coins[i] /\ CoinOverlap(player, coinPositions[i])

C6_Positions ==
  /\ pc = "coins" => cameraX = CameraFor(player.x)
  /\ pc \in {"render", "raf"} => cameraX = CameraFor(player.x) /\ ~UncollectedOverlap

C6_Steps ==
  /\ IsTick => pc' = "camera"
  /\ pc = "camera" => pc' = "coins"
  /\ pc = "coins" => pc' = "render"
  /\ pc = "render" => pc' = "raf"

JumpTick ==
  /\ IsTick
  /\ player.onGround /\ player.velY = 0
  /\ keys.up

\* C7 as stated (Scenario A): such a tick produces velY = JUMP_VELOCITY and
\* onGround = false.
C7_JumpVelocity ==
  [][ JumpTick => player'.velY = JUMP_VELOCITY /\ ~player'.onGround ]_vars

\* C7, amended. Such a tick sets velY to JUMP_VELOCITY and adds gravity in the
\* same tick: it produces velY = JUMP_VELOCITY + GRAVITY (-11.6), y moved up
\* by that much, and onGround = false.
C7_JumpPlusGravity ==
  [][ JumpTick =>
        /\ player'.velY = JUMP_VELOCITY + GRAVITY
        /\ player'.y = player.y + JUMP_VELOCITY + GRAVITY
        /\ ~player'.onGround ]_vars

\* The state a jump tick produces.
C7_JustJumped ==
  /\ frames > 1
  /\ keys.up
  /\ player.velY = JUMP_VELOCITY + GRAVITY
  /\ ~player.onGround

\* The player falls (velY >= 0 after gravity), overlaps plat horizontally at
\* its new x, and its bottom edge goes from not below plat's top to below it.
CrossesTop(p, k, newX, plat) ==
  /\ BeforeCollision(p, k).velY >= 0
  /\ OverlapsX(newX, plat)
  /\ Bottom(p) <= plat.y
  /\ Bottom(BeforeCollision(p, k)) > plat.y

\* C8 (Scenario B). A tick in which the falling player's bottom edge crosses
\* the top of a platform it overlaps horizontally ends with
\* y = platform top - PLAYER_HEIGHT, velY = 0 and onGround = true.
C8_Landing ==
  [][ IsTick =>
        \A i \in 1..Len(potentialPlatforms) :
          CrossesTop(player, keys, player'.x, potentialPlatforms[i]) =>
            /\ player'.y = potentialPlatforms[i].y - PLAYER_HEIGHT
            /\ player'.velY = 0
            /\ player'.onGround ]_vars

\* Jump is held and the tick just run ended on the ground: it began in the
\* air (or it would have jumped), so the player came down from a jump.
C8_LandedFromJump ==
  /\ pc = "camera"
  /\ frames >= 3
  /\ keys.up
  /\ player.onGround

\* C9 (Scenario C). In a tick in which the player moves upward (velY < 0 after
\* gravity) nothing is resolved: y is where the motion put it, velY is kept,
\* and onGround is false after the tick.
C9_PassThrough ==
  [][ IsTick /\ BeforeCollision(player, keys).velY < 0 =>
        /\ player'.y = BeforeCollision(player, keys).y
        /\ player'.velY = BeforeCollision(player, keys).velY
        /\ ~player'.onGround ]_vars

\* A tick has left the rising player with its bottom edge inside a platform
\* it overlaps horizontally.
C9_RisingThroughPlatform ==
  /\ frames > 0
  /\ player.velY < 0
  /\ ~player.onGround
  /\ \E i \in 1..Len(potentialPlatforms) :
       /\ OverlapsX(player.x, potentialPlatforms[i])
       /\ Bottom(player) > potentialPlatforms[i].y
       /\ Bottom(player) < potentialPlatforms[i].y + potentialPlatforms[i].h

\* Two spans [a1, a2] and [b1, b2] share more than a point / at least a point.
SpansOverlap(a1, a2, b1, b2) == Max(a1, b1) < Min(a2, b2)
SpansMeet(a1, a2, b1, b2)    == Max(a1, b1) <= Min(a2, b2)

BoxesOverlap(p, coin) ==
  /\ SpansOverlap(p.x, p.x + PLAYER_WIDTH, coin.x, coin.x + COIN_SIZE)
  /\ SpansOverlap(p.y, p.y + PLAYER_HEIGHT, coin.y, coin.y + COIN_SIZE)

\* The boxes share an edge or a corner and no interior point.
BoxesTouch(p, coin) ==
  /\ SpansMeet(p.x, p.x + PLAYER_WIDTH, coin.x, coin.x + COIN_SIZE)
  /\ SpansMeet(p.y, p.y + PLAYER_HEIGHT, coin.y, coin.y + COIN_SIZE)
  /\ ~BoxesOverlap(p, coin)

\* C10 (Scenario D). The coin check marks a coin collected only if it was not
\* collected and the player's box and the coin's box overlap strictly on both
\* axes; the score grows by one for each coin so marked; a coin whose box the
\* player's box only touches keeps its flag.
C10_StrictOverlap ==
  [][ pc = "coins" /\ pc' # "coins" =>
        /\ \A i \in 1..NumCoins :
             /\ coins'[i] # coins[i] =>
                  ~coins[i] /\ coins'[i] /\ BoxesOverlap(player, coinPositions[i])
             /\ BoxesTouch(player, coinPositions[i]) => coins'[i] = coins[i]
        /\ score' = score + Cardinality({i \in 1..NumCoins : coins'[i] # coins[i]})
    ]_vars

\* The coin check has run with the player's box touching an uncollected coin,
\* and left the coin uncollected and the score at 0.
C10_TouchedNotCollected ==
  /\ pc = "render"
  /\ score = 0
  /\ \E i \in 1..NumCoins : ~coins[i] /\ BoxesTouch(player, coinPositions[i])

\* One tick with neither left nor right held: the speed does not grow, and
\* shrinks unless it is 0; the direction does not flip; the result is 0 exactly
\* when 0.8 times the speed is below the cut-off 0.1, and otherwise is not
\* below it; 0 stays 0.
C11_Step ==
  IsTick /\ ~keys.left /\ ~keys.right =>
    /\ Abs(player'.velX) <= Abs(player.velX)
    /\ player.velX # 0 => Abs(player'.velX) < Abs(player.velX)
    /\ player'.velX * player.velX >= 0
    /\ player'.velX = 0 <=> 8 * Abs(player.velX) < 10 * STOP_BELOW
    /\ player'.velX # 0 => Abs(player'.velX) >= STOP_BELOW
    /\ player.velX = 0 => player'.velX = 0

\* C11 (Scenario E). Over consecutive ticks with neither left nor right held,
\* from any velX in [-MAX_VEL_X, MAX_VEL_X]: |velX| never grows, velX never
\* changes sign, it becomes exactly 0 as soon as it falls below 0.1, which
\* happens within FrictionTicks ticks, and then it stays 0.
C11_Friction ==
  /\ [][C11_Step]_vars
  /\ [](frames >= 1 + FrictionTicks => player.velX = 0)

\* The player started at full speed and friction has stopped it, after it
\* slid more than 23 px.
C11_SlidToRest ==
  /\ player.velX = 0
  /\ Abs(player.x - WORLD_WIDTH \div 2) > Px(23)

C13_CameraDerived ==
  pc \in {"render", "raf"} /\ frames > 0 =>
    cameraX = Max(0, Min(WORLD_WIDTH - CANVAS_WIDTH,
                         player.x + PLAYER_WIDTH \div 2 - CANVAS_WIDTH \div 2))

\* The renderer is handed a camera that has left its stops while the player
\* runs at full speed: the offset of the previous tick differs by 6 px.
C13_FollowingAtFullSpeed ==
  /\ pc = "render"
  /\ cameraX > 0
  /\ cameraX < WORLD_WIDTH - CANVAS_WIDTH
  /\ Abs(player.velX) = MAX_VEL_X

\* The velocity a tick leaves is that of a jump started in that tick: it
\* points upward and is below the velocity the tick started with.
Impulse == player'.velY < 0 /\ player'.velY < player.velY

\* C14. No mid-air jump: a tick applies the jump impulse only if it starts
\* with onGround = true and jump held; a tick that starts in the air adds
\* gravity to velY, or lands (velY = 0, onGround = true); the first tick never
\* jumps.
C14_NoMidAirJump ==
  [][ IsTick =>
        /\ Impulse => player.onGround /\ keys.up
        /\ ~player.onGround =>
              \/ player'.velY = player.velY + GRAVITY /\ ~player'.onGround
              \/ player'.velY = 0 /\ player'.onGround
        /\ frames = 0 => ~Impulse ]_vars

\* Jump is held and the player is in the air, at least fifteen ticks after
\* its take-off.
C14_HeldInAir ==
  /\ keys.up
  /\ ~player.onGround
  /\ player.velY < 0
  /\ player.velY > JUMP_VELOCITY \div 2

\* The orders in which a list of up to MostNear platforms can be gone through
\* (the player, 50 px wide, overlaps at most two ground tiles and one floating
\* platform).
MostNear == 4

Shuffles == [n \in 0..MostNear |-> Permutations(1..n)]

Orderings(plats) ==
  {[i \in 1..Len(plats) |-> plats[f[i]]] : f \in Shuffles[Len(plats)]}

\* The platforms the player overlaps horizontally at x, in list order.  The
\* others fail the loop's test wherever they stand in the list and whatever
\* the running y and velY are, so an order of the whole list acts as the order
\* it puts these in.
Near(x) == SelectSeq(potentialPlatforms, LAMBDA plat : OverlapsX(x, plat))

\* C15. Platform iteration order is irrelevant: in every tick, the platform
\* loop run in any other order over the platforms the player overlaps
\* horizontally leaves the same y, velY and onGround as the loop over the list
\* as it is, snaps included.
C15_OrderIrrelevant ==
  [][ IsTick =>
        \A o \in Orderings(Near(player'.x)) :
          LET s == ResolveSeq(o, 1, player'.x, BeforeCollision(player, keys))
          IN  /\ s.y = player'.y
              /\ s.velY = player'.velY
              /\ s.onGround = player'.onGround
    ]_vars

\* The player has jumped and come down on a floating platform, at a place
\* where it overlaps two ground tiles as well (a player that does not jump has
\* left the platform it started on within 50 frames).
C15_OnFloatingOverTwoTiles ==
  /\ frames > HighStartFrame + 50
  /\ player.onGround
  /\ Bottom(player) < CANVAS_HEIGHT - TILE_SIZE
  /\ Len(Near(player.x)) = 3

\* C16. First-tick dt: the first step is run with dt = 0, lastTimestamp having
\* been set to the first timestamp (the walk animation does not advance in
\* it); every later step is run with dt = its timestamp - the previous one,
\* which is not negative.
C16_FirstDt ==
  [][ IsTick =>
        /\ frames = 0 =>
              /\ dt' = 0
              /\ lastTimestamp' \in FirstTimestamps
              /\ player'.walkFrameIndex = 1 /\ player'.walkFrameTimer = 0
        /\ frames > 0 => dt' = lastTimestamp' - lastTimestamp
        /\ dt' >= 0 ]_vars

\* The first step has run, at a timestamp that is not 0, with the player
\* walking (the animation timer takes in dt).
C16_FirstStepWalking ==
  /\ frames = 1
  /\ lastTimestamp > 0
  /\ dt = 0
  /\ player.velX # 0 /\ player.onGround

\* C17. Left priority: a tick with left and right both held leaves the state
\* (player, camera, coins, score) a tick with only left held leaves.
C17_LeftPriority ==
  [][ IsTick /\ keys.left /\ keys.right =>
        Run' \in Update(Run, [keys EXCEPT !.right = FALSE], dt') ]_vars

\* Both are held and the player has turned round: it moves left after having
\* moved right.
C17_TurnedLeftBothHeld ==
  /\ keys.left /\ keys.right
  /\ player.velX < 0
  /\ player.x > NewPlayer.x

\* C18. Score equals collected count: the score is the number of coins whose
\* collected flag is true, and so never more than the number of coins.
C18_ScoreIsCount ==
  /\ score = Cardinality({i \in 1..NumCoins : coins[i]})
  /\ score <= NumCoins

\* The sixth coin was collected in frame 64, the coins were checked again in
\* the next frame with the player still on it, and the score is 1.
C18_CountedOnce ==
  /\ pc = "raf"
  /\ frames > 64
  /\ coins[6]
  /\ CoinOverlap(player, coinPositions[6])
  /\ score = 1

\* The vertical state the platform loop leaves in a tick, before the floor
\* check.
AfterPlatforms ==
  ResolvePlatforms(potentialPlatforms, player'.x, BeforeCollision(player, keys))

\* C19. The floor backstop is never the landing mechanism in the fixed level:
\* the player's bottom edge never ends a tick below the top of the ground
\* strip, and in no tick does the platform loop leave it below the world
\* floor (the condition of the floor check).
C19_BackstopUnused ==
  /\ [](Bottom(player) <= CANVAS_HEIGHT - TILE_SIZE)
  /\ [][IsTick => Bottom(AfterPlatforms) <= CANVAS_HEIGHT]_vars

\* The player comes down from a jump off the highest platform, at more than
\* 17 px per tick, and will cross the top of the ground strip in the next tick.
C19_FastestFall ==
  /\ ~player.onGround
  /\ player.velY > Px(17)
  /\ Bottom(player) + player.velY + GRAVITY > CANVAS_HEIGHT - TILE_SIZE

\* The player is in the air and at least MaxAirTicks frames are still to run.
InAirInTime ==
  /\ ~player.onGround
  /\ frames <= HighFrames - MaxAirTicks

Landed == player.onGround /\ player.velY = 0

\* C20 as stated: an airborne player lands; and a player that ends a tick on
\* a platform with no jump intent ends the next tick with onGround = true.
C20_LandsAndNeverFlickers ==
  /\ [](InAirInTime => <>Landed)
  /\ [][IsTick /\ player.onGround /\ ~keys.up => player'.onGround]_vars

\* The player stands on plat.
StandsOn(p, plat) ==
  /\ p.onGround
  /\ OverlapsX(p.x, plat)
  /\ Bottom(p) = plat.y

\* C20, amended. From every state with onGround = false, under any keys (jump
\* held all the time included), a tick that ends with onGround = true and
\* velY = 0 comes, provided ticks keep occurring; and a player that ends a
\* tick on a platform with no jump intent ends the next tick on it, at the
\* same y with velY = 0, if its new x still overlaps the platform (a player
\* that has walked over the edge of a floating platform is in the air).
C20_LandsAndRests ==
  /\ [](InAirInTime => <>Landed)
  /\ [][ IsTick /\ ~keys.up =>
          \A i \in 1..Len(potentialPlatforms) :
            /\ StandsOn(player, potentialPlatforms[i])
            /\ OverlapsX(player'.x, potentialPlatforms[i])
            => /\ player'.onGround
               /\ player'.y = player.y
               /\ player'.velY = 0 ]_vars

\* The player has walked over the right edge of the second floating platform
\* and falls beside it.
C20_WalkedOffTheEdge ==
  /\ ~player.onGround
  /\ ~keys.up
  /\ player.x >= floatingPlatforms[2].x + floatingPlatforms[2].w
  /\ player.y = floatingPlatforms[2].y - PLAYER_HEIGHT + GRAVITY

====
